---- MODULE Spec2Model ----
(***************************************************************************)
(* Louvain clustering of scikit-network (sknetwork/clustering/louvain.py): *)
(* the AggregateGraph, the GreedyModularity optimizer and the Louvain      *)
(* driver, as a state machine.                                             *)
(*                                                                         *)
(* Numbers.  The code works on floating point probabilities.  The model    *)
(* keeps every quantity as an exact rational: an integer numerator over a  *)
(* denominator that is fixed for the whole run.                            *)
(*   norm_adjacency[i][j]  = graph.norm_adjacency[i][j] / graph.adj_den    *)
(*   out_probs[i]          = graph.out_probs[i] / graph.out_den            *)
(*   in_probs[i]           = graph.in_probs[i]  / graph.in_den             *)
(*   resolution            = res[1] / res[2],  tol = tol[1] / tol[2]       *)
(*   a gain (delta)        = numerator / Scale(graph, resolution)          *)
(* Vectors and matrices are functions on 0..n-1, as numpy indexes them.    *)
(***************************************************************************)
EXTENDS Integers, Sequences, FiniteSets

\* ------------------------------------------------------------ bounds
MaxN == 4            \* nodes of the graph that fit clusters
MaxW == 2            \* largest entry of an input adjacency
MaxMass == 3         \* largest total weight of an input adjacency
MaxShuffled == 3     \* nodes of the graphs that fit clusters shuffled
MaxAggIter == 2      \* largest max_agg_iter tried (the least is -1)
MaxAggregated == 3   \* nodes of a graph that is aggregated on its own
MaxAggregatedMass == 2   \* and its largest total weight
MaxSweeps == 4       \* the sweeps of a run are counted up to this number

\* ------------------------------------------------------- arithmetic
Range0(n) == 0..(n - 1)

RECURSIVE SumUpTo(_, _)
SumUpTo(f, k) == IF k = 0 THEN 0 ELSE f[k - 1] + SumUpTo(f, k - 1)

VecLen(v) == Cardinality(DOMAIN v)
VecSum(v) == SumUpTo(v, VecLen(v))
NRows(M) == Cardinality(DOMAIN M)
NCols(M) == Cardinality(DOMAIN M[0])
MatSum(M) == VecSum([i \in DOMAIN M |-> VecSum(M[i])])
Transpose(M) == [j \in Range0(NCols(M)) |-> [i \in Range0(NRows(M)) |-> M[i][j]]]
Dot(M, N) ==
    [i \in DOMAIN M |-> [j \in Range0(NCols(N)) |->
        SumUpTo([k \in DOMAIN N |-> M[i][k] * N[k][j]], NRows(N))]]
DotVec(M, v) ==
    [i \in DOMAIN M |-> SumUpTo([k \in DOMAIN v |-> M[i][k] * v[k]], VecLen(v))]
MaxOf(S) == CHOOSE x \in S : \A y \in S : y <= x
Identity(n) == [i \in Range0(n) |-> [j \in Range0(n) |-> IF i = j THEN 1 ELSE 0]]
Zeros(n) == [i \in Range0(n) |-> 0]
\* np.hstack((a, b))
hstack(a, b) ==
    [i \in Range0(VecLen(a) + VecLen(b)) |->
        IF i < VecLen(a) THEN a[i] ELSE b[i - VecLen(a)]]

\* Python's None (a probability vector is never empty: a graph has a node).
None == <<>>

\* ---------------------------------------------------- membership_matrix
\* The mutant: a matrix that forgets the last node.
membership_matrix_drop(labels) ==
    [i \in Range0(VecLen(labels)) |->
        [c \in Range0(MaxOf({labels[k] : k \in DOMAIN labels}) + 1) |->
            IF labels[i] = c /\ i + 1 < VecLen(labels) THEN 1 ELSE 0]]

\* csr_matrix((ones(n), (arange(n), labels))): n x (max label + 1).
membership_matrix(labels) ==
    [i \in Range0(VecLen(labels)) |->
        [c \in Range0(MaxOf({labels[k] : k \in DOMAIN labels}) + 1) |->
            IF labels[i] = c THEN 1 ELSE 0]]

\* ----------------------------------------------------------- weights
\* A weights argument: 'degree', 'uniform', an explicit vector, or None.
Degree == [kind |-> "degree"]
Uniform == [kind |-> "uniform"]
Array(v) == [kind |-> "array", v |-> v]
NoWeights == [kind |-> "None"]

\* check_probs(weights, adjacency): the weights as a distribution, here the
\* numerators and their sum.
check_probs(weights, adjacency) ==
    LET v == CASE weights.kind = "degree" ->
                    [i \in DOMAIN adjacency |-> VecSum(adjacency[i])]
               [] weights.kind = "uniform" -> [i \in DOMAIN adjacency |-> 1]
               [] weights.kind = "array" -> weights.v
    IN  [v |-> v, den |-> VecSum(v)]

\* ------------------------------------------------------ AggregateGraph
\* AggregateGraph.__init__
NewAggregateGraph(adjacency, out_weights, in_weights) ==
    LET o == check_probs(out_weights, adjacency)
        i == IF in_weights.kind = "None" THEN [v |-> None, den |-> 1]
             ELSE check_probs(in_weights, Transpose(adjacency))
    IN  [n_nodes |-> NRows(adjacency),
         norm_adjacency |-> adjacency, adj_den |-> MatSum(adjacency),
         out_probs |-> o.v, out_den |-> o.den,
         in_probs |-> i.v, in_den |-> i.den]

\* A membership argument of aggregate: an ndarray of labels, a sparse matrix,
\* or no argument.
Labels(v) == [kind |-> "ndarray", v |-> v]
Csr(m) == [kind |-> "csr", m |-> m]
NoMembership == [kind |-> "None"]

AsMatrix(arg) == IF arg.kind = "ndarray" THEN membership_matrix(arg.v) ELSE arg.m

\* Whether scipy's products of aggregate raise (a dimension mismatch): the first
\* statement that multiplies is the one that assigns norm_adjacency.
AggregateRaises(g, row, col) ==
    LET R == AsMatrix(row)
        C == IF col.kind = "None" THEN R ELSE AsMatrix(col)
    IN  \/ NRows(R) # NRows(g.norm_adjacency)
        \/ NRows(C) # NCols(g.norm_adjacency)

\* The mutant: the self-edges of a merged cluster are lost.
aggregate_lossy(g, row, col) ==
    LET R == AsMatrix(row)
        C == IF col.kind = "None" THEN R ELSE AsMatrix(col)
        adj == Dot(Transpose(R), Dot(g.norm_adjacency, C))
    IN  [g EXCEPT
            !.norm_adjacency = [i \in DOMAIN adj |-> [j \in DOMAIN adj[i] |->
                                   IF i = j THEN g.norm_adjacency[i][j] ELSE adj[i][j]]],
            !.in_probs = IF g.in_probs = None THEN None ELSE DotVec(Transpose(C), g.in_probs),
            !.out_probs = DotVec(Transpose(R), g.out_probs),
            !.n_nodes = NRows(adj)]

\* AggregateGraph.aggregate, when nothing raises.
aggregate(g, row, col) ==
    LET R == AsMatrix(row)
        C == IF col.kind = "None" THEN R ELSE AsMatrix(col)
        adj == Dot(Transpose(R), Dot(g.norm_adjacency, C))
    IN  [g EXCEPT
            !.norm_adjacency = adj,
            !.in_probs = IF g.in_probs = None THEN None ELSE DotVec(Transpose(C), g.in_probs),
            !.out_probs = DotVec(Transpose(R), g.out_probs),
            !.n_nodes = NRows(adj)]

\* ------------------------------------------- graph transforms (utils)
\* directed2undirected: the sum of the matrix and its transpose.
directed2undirected(A) == [i \in DOMAIN A |-> [j \in DOMAIN A |-> A[i][j] + A[j][i]]]

\* bipartite2directed: [[0, B], [0, 0]] over the row nodes then the column nodes.
bipartite2directed(B) ==
    LET n1 == NRows(B)
        n2 == NCols(B)
    IN  [i \in Range0(n1 + n2) |-> [j \in Range0(n1 + n2) |->
            IF i < n1 /\ j >= n1 THEN B[i][j - n1] ELSE 0]]

\* bipartite2undirected: [[0, B], [B^T, 0]].
bipartite2undirected(B) ==
    LET n1 == NRows(B)
        n2 == NCols(B)
    IN  [i \in Range0(n1 + n2) |-> [j \in Range0(n1 + n2) |->
            IF i < n1 /\ j >= n1 THEN B[i][j - n1]
            ELSE IF i >= n1 /\ j < n1 THEN B[j][i - n1] ELSE 0]]

\* reindex_clusters: labels renumbered by decreasing cluster size, ties by the
\* lower label.
reindex_clusters(labels) ==
    LET size(c) == Cardinality({i \in DOMAIN labels : labels[i] = c})
        used == {labels[i] : i \in DOMAIN labels}
        rank(c) == Cardinality({d \in used :
                        size(d) > size(c) \/ (size(d) = size(c) /\ d < c)})
    IN  [i \in DOMAIN labels |-> rank(labels[i])]

\* ------------------------------------------------------------- state
VARIABLES
    input,                  \* the arguments of Louvain(...) and of fit(...), but
                            \* sorted_cluster, which is drawn where fit reads it
    pc,                     \* where the run is
    nodes,                  \* fit: the node order (a permutation when shuffled)
    adjacency,              \* fit: the adjacency after the transforms and the shuffle
    graph,                  \* the AggregateGraph
    membership,             \* fit: the running membership matrix
    iteration_count,        \* fit: its counter
    labels,                 \* optimizer: label of each node
    out_clusters_weights,   \* optimizer: out-mass of each cluster
    in_clusters_weights,    \* optimizer: in-mass of each cluster
    node,                   \* optimizer: the next node of the sweep
    pass_increase,          \* optimizer: gain of the sweep so far
    total_increase,         \* optimizer: gain of the finished sweeps
    algorithm,              \* the optimizer's score_ and labels_
    output,                 \* labels_, secondary_labels_, iteration_count_, aggregate_graph_
    history,                \* ghost: the aggregations and sweeps of the run, its exit
    last_call               \* ghost: the last aggregate call made on its own

vars == <<input, pc, nodes, adjacency, graph, membership, iteration_count, labels,
          out_clusters_weights, in_clusters_weights, node, pass_increase,
          total_increase, algorithm, output, history, last_call>>

optimizer_vars == <<labels, out_clusters_weights, in_clusters_weights, node,
                    pass_increase, total_increase>>
driver_vars == <<nodes, adjacency, membership, iteration_count, output>>

\* ------------------------------------------------- GreedyModularity
\* in_node_probs of GreedyModularity.fit: the out-probabilities when the graph
\* has no in-probabilities.
in_node_probs(g) == IF g.in_probs = None THEN g.out_probs ELSE g.in_probs
in_node_den(g) == IF g.in_probs = None THEN g.out_den ELSE g.in_den

\* The denominator of every gain of a run.
Scale(g, resolution) == g.adj_den * g.out_den * in_node_den(g) * resolution[2]

\* adjacency = 0.5 * directed2undirected(norm_adjacency): numerators over 2 * adj_den.
proxy_adjacency(g) == directed2undirected(g.norm_adjacency)

\* indices[indptr[node]:indptr[node + 1]]: the stored entries of the node's row.
neighbors(g, i) == {j \in Range0(g.n_nodes) : proxy_adjacency(g)[i][j] # 0}

\* set(labels[neighbors]) - {node_cluster}
unique_clusters(g, lab, i) == {lab[j] : j \in neighbors(g, i)} \ {lab[i]}

\* 2 * weights[labels[neighbors] == cluster].sum(), as a numerator over adj_den.
edge_mass2(g, lab, i, cluster) ==
    LET S == proxy_adjacency(g)
    IN  SumUpTo([j \in Range0(g.n_nodes) |-> IF lab[j] = cluster THEN S[i][j] ELSE 0],
                g.n_nodes)

\* The mutant: the node's own mass is not taken out of its cluster, nor its
\* self-loop.
exit_delta_whole(g, resolution, lab, ocw, icw, i) ==
    LET D == g.out_den * in_node_den(g) * resolution[2]
        o == g.out_probs[i]
        n == in_node_probs(g)[i]
    IN  D * edge_mass2(g, lab, i, lab[i])
        - resolution[1] * g.adj_den * (o * icw[lab[i]] + n * ocw[lab[i]])

\* exit_delta (numerator over Scale); self_loops[node] is S[i][i] over 2 * adj_den.
exit_delta(g, resolution, lab, ocw, icw, i) ==
    LET S == proxy_adjacency(g)
        D == g.out_den * in_node_den(g) * resolution[2]
        o == g.out_probs[i]
        n == in_node_probs(g)[i]
    IN  D * (edge_mass2(g, lab, i, lab[i]) - S[i][i])
        - resolution[1] * g.adj_den * (o * (icw[lab[i]] - n) + n * (ocw[lab[i]] - o))

\* delta of a candidate cluster (numerator over Scale).
delta(g, resolution, lab, ocw, icw, i, cluster) ==
    LET D == g.out_den * in_node_den(g) * resolution[2]
        o == g.out_probs[i]
        n == in_node_probs(g)[i]
    IN  D * edge_mass2(g, lab, i, cluster)
        - resolution[1] * g.adj_den * (o * icw[cluster] + n * ocw[cluster])

local_delta(g, resolution, lab, ocw, icw, i, cluster) ==
    delta(g, resolution, lab, ocw, icw, i, cluster)
    - exit_delta(g, resolution, lab, ocw, icw, i)

\* The mutant: the mass of the node is added to its new cluster and stays in
\* the old one.
move_weights_kept(weights, prob, node_cluster, best_cluster) ==
    [c \in DOMAIN weights |->
        weights[c] + (IF c = best_cluster THEN prob ELSE 0)]

\* clusters_weights[node_cluster] -= prob; clusters_weights[best_cluster] += prob
move_weights(weights, prob, node_cluster, best_cluster) ==
    [c \in DOMAIN weights |->
        weights[c] - (IF c = node_cluster THEN prob ELSE 0)
                   + (IF c = best_cluster THEN prob ELSE 0)]

\* The mutant: a node moves to its best candidate whatever the gain.
move_always(best_delta) == TRUE

\* if best_delta > 0
move(best_delta) == best_delta > 0

\* The mutant: a sweep of gain equal to tol starts another one.
continue_sweeps_weak(pass, tol, scale) == pass * tol[2] >= tol[1] * scale

\* if pass_increase > self.tol
continue_sweeps(pass, tol, scale) == pass * tol[2] > tol[1] * scale

\* The mutant: the labels are kept as they are.
unique_inverse_raw(lab) == lab

\* _, labels_ = np.unique(labels, return_inverse=True): each label's rank among
\* the labels in use.
unique_inverse(lab) ==
    LET used == {lab[i] : i \in DOMAIN lab}
    IN  [i \in DOMAIN lab |-> Cardinality({d \in used : d < lab[i]})]

\* ------------------------------------------------------------ inputs
\* n1 x n2 matrices of entries 0..MaxW and total weight 1..mass.
RECURSIVE Rows(_, _)
Rows(n2, mass) ==
    IF n2 = 0 THEN {<<>>}
    ELSE UNION {{[j \in Range0(n2) |-> IF j = n2 - 1 THEN w ELSE r[j]] :
                    r \in Rows(n2 - 1, mass - w)} :
                w \in 0..(IF MaxW < mass THEN MaxW ELSE mass)}

RECURSIVE MatricesUpTo(_, _, _)
MatricesUpTo(n1, n2, mass) ==
    IF n1 = 0 THEN {<<>>}
    ELSE UNION {{[i \in Range0(n1) |-> IF i = n1 - 1 THEN r ELSE M[i]] :
                    M \in MatricesUpTo(n1 - 1, n2, mass - VecSum(r))} :
                r \in Rows(n2, mass)}

Matrices(n1, n2, mass) == {A \in MatricesUpTo(n1, n2, mass) : MatSum(A) > 0}

\* n of fit: the nodes of the graph that is clustered.
GraphSize(A, force_biadjacency) ==
    IF NRows(A) # NCols(A) \/ force_biadjacency THEN NRows(A) + NCols(A) ELSE NRows(A)

\* Square and rectangular inputs.
Adjacencies == UNION {Matrices(n1, n2, MaxMass) : n1 \in 1..MaxN, n2 \in 1..MaxN}

NodeOrders(n) ==
    {p \in [Range0(n) -> Range0(n)] : \A i, j \in Range0(n) : p[i] = p[j] => i = j}

\* The defaults of Louvain.__init__ (lines 426-427).
DefaultResolution == <<1, 1>>
DefaultTol == <<1, 1000>>
DefaultAggTol == <<1, 1000>>
DefaultMaxAggIter == -1

Resolutions == {<<1, 2>>, <<1, 1>>, <<2, 1>>}
Tolerances == {<<0, 1>>, <<1, 10>>}
MaxAggIters == (-1)..MaxAggIter

\* The weights arguments tried: 'degree', 'uniform' and the vector 1, 2, .., of
\* the length check_probs asks for.
WeightsFor(A, fu, fb) ==
    {Degree, Uniform,
     Array([i \in Range0(IF fu THEN GraphSize(A, fb) ELSE NRows(A)) |-> i + 1])}

SecondaryWeightsFor(A, fu, fb) ==
    IF GraphSize(A, fb) > NRows(A) /\ ~fu THEN {NoWeights, Degree, Uniform}
    ELSE {NoWeights}

\* Runs that vary the arguments of fit under the default resolution and
\* tolerances; the smaller graphs are shuffled too.
\* (fu, fb: force_undirected, force_biadjacency.)
FitArguments(fu, fb) ==
    UNION {[adjacency : {A},
            weights : WeightsFor(A, fu, fb),
            secondary_weights : SecondaryWeightsFor(A, fu, fb),
            force_undirected : {fu},
            force_biadjacency : {fb},
            resolution : {DefaultResolution},
            tol : {DefaultTol},
            agg_tol : {DefaultAggTol},
            max_agg_iter : {DefaultMaxAggIter},
            shuffle_nodes : IF GraphSize(A, fb) <= MaxShuffled THEN BOOLEAN ELSE {FALSE}] :
           A \in {B \in Adjacencies : GraphSize(B, fb) <= MaxN}}

FitRuns == UNION {FitArguments(fu, fb) : fu \in BOOLEAN, fb \in BOOLEAN}

\* Runs that vary the arguments of Louvain(...) under the default arguments of fit.
ConstructorRuns ==
    [adjacency : {A \in Adjacencies : GraphSize(A, FALSE) <= MaxN},
     weights : {Degree},
     secondary_weights : {NoWeights},
     force_undirected : {FALSE},
     force_biadjacency : {FALSE},
     resolution : Resolutions,
     tol : Tolerances,
     agg_tol : Tolerances,
     max_agg_iter : MaxAggIters,
     shuffle_nodes : {FALSE}]

\* Values that neither constructor refuses (lines 256-260, 426-447): a
\* resolution that is not positive, a tol that is negative.
InvalidResolutions == {<<0, 1>>, <<-1, 1>>}
InvalidTolerances == {<<-1, 10>>}

\* Runs of an optimizer built with such a value.
InvalidRuns ==
    {r \in [adjacency : {A \in Adjacencies : GraphSize(A, FALSE) <= MaxShuffled},
            weights : {Degree},
            secondary_weights : {NoWeights},
            force_undirected : {FALSE},
            force_biadjacency : {FALSE},
            resolution : Resolutions \cup InvalidResolutions,
            tol : Tolerances \cup InvalidTolerances,
            agg_tol : {DefaultAggTol},
            max_agg_iter : {DefaultMaxAggIter},
            shuffle_nodes : {FALSE}] :
        r.resolution \in InvalidResolutions \/ r.tol \in InvalidTolerances}

NoInput == [adjacency |-> <<>>]
NoGraph == [n_nodes |-> 0]
NoOutput == [labels_ |-> None, secondary_labels_ |-> None, iteration_count_ |-> None,
             aggregate_graph_ |-> None, sorted_cluster |-> FALSE]
NoAlgorithm == [score_ |-> None, labels_ |-> None]
NoCall == [made |-> FALSE]

\* --------------------------------------------------------- Louvain.fit
\* Lines 481-504: the adjacency and the weights of the graph to cluster.
Preprocess(in) ==
    LET A == in.adjacency
        n1 == NRows(A)
        n2 == NCols(A)
    IN  IF n1 # n2 \/ in.force_biadjacency
        THEN IF in.force_undirected
             THEN LET adj == bipartite2undirected(A)
                      w == Array(check_probs(in.weights, adj).v)
                  IN  [adjacency |-> adj, out_weights |-> w, in_weights |-> w]
             ELSE LET primary == check_probs(in.weights, A).v
                      sw == IF in.secondary_weights.kind = "None"
                            THEN IF in.weights.kind = "array" THEN Degree ELSE in.weights
                            ELSE in.secondary_weights
                      secondary == check_probs(sw, Transpose(A)).v
                  IN  [adjacency |-> bipartite2directed(A),
                       out_weights |-> Array(hstack(primary, Zeros(n2))),
                       in_weights |-> Array(hstack(Zeros(n1), secondary))]
        ELSE [adjacency |-> IF in.force_undirected THEN directed2undirected(A) ELSE A,
              out_weights |-> in.weights, in_weights |-> in.weights]

\* adjacency[nodes, :].tocsc()[:, nodes].tocsr()
Shuffled(A, perm) == [i \in DOMAIN A |-> [j \in DOMAIN A |-> A[perm[i]][perm[j]]]]

RECURSIVE AscendingSeq(_)
AscendingSeq(S) ==
    IF S = {} THEN <<>>
    ELSE LET m == CHOOSE x \in S : \A y \in S : x <= y
         IN  <<m>> \o AscendingSeq(S \ {m})

RECURSIVE IndicesUpTo(_, _)
IndicesUpTo(M, r) ==
    IF r = 0 THEN <<>>
    ELSE IndicesUpTo(M, r - 1)
         \o AscendingSeq({j \in DOMAIN M[r - 1] : M[r - 1][j] # 0})

\* membership.indices: the columns of the stored entries, row after row.
Indices(M) ==
    LET s == IndicesUpTo(M, NRows(M))
    IN  [i \in Range0(Len(s)) |-> s[i + 1]]

\* reverse[nodes] = np.arange(nodes.size)
Reverse(perm) == [v \in DOMAIN perm |-> CHOOSE k \in DOMAIN perm : perm[k] = v]

\* The mutant: the labels stay in the shuffled order.
Unshuffle_forgotten(lab, perm) == lab

\* labels_[reverse]
Unshuffle(lab, perm) == [v \in DOMAIN perm |-> lab[Reverse(perm)[v]]]

\* labels_[n1:] and labels_[:n1]
SliceFrom(lab, n1) == [i \in Range0(VecLen(lab) - n1) |-> lab[n1 + i]]
SliceTo(lab, n1) == [i \in Range0(IF n1 < VecLen(lab) THEN n1 ELSE VecLen(lab)) |-> lab[i]]

\* if self.algorithm.score_ <= self.agg_tol
no_increase(score, agg_tol, scale) == score * agg_tol[2] <= agg_tol[1] * scale

\* if iteration_count == self.max_agg_iter
cap_reached(count, max_agg_iter) == count = max_agg_iter

\* A Louvain object and the arguments of a call of fit that has not started.
InitOf(runs) ==
    /\ input \in runs
    /\ pc = "start"
    /\ nodes = None
    /\ adjacency = None
    /\ graph = NoGraph
    /\ membership = None
    /\ iteration_count = 0
    /\ labels = None
    /\ out_clusters_weights = None
    /\ in_clusters_weights = None
    /\ node = 0
    /\ pass_increase = 0
    /\ total_increase = 0
    /\ algorithm = NoAlgorithm
    /\ output = NoOutput
    /\ history = [aggregations |-> 0, sweeps |-> 0, exit |-> "none"]
    /\ last_call = NoCall

Init == InitOf(FitRuns \cup ConstructorRuns)

\* Louvain.fit up to its loop (lines 478-518).
FitStart ==
    /\ pc = "start"
    /\ LET P == Preprocess(input)
           n == NRows(P.adjacency)
       IN  \E perm \in IF input.shuffle_nodes THEN NodeOrders(n)
                       ELSE {[i \in Range0(n) |-> i]} :
               /\ nodes' = perm
               /\ adjacency' = IF input.shuffle_nodes THEN Shuffled(P.adjacency, perm)
                               ELSE P.adjacency
               /\ graph' = NewAggregateGraph(adjacency', P.out_weights, P.in_weights)
               /\ membership' = Identity(n)
    /\ iteration_count' = 0
    /\ pc' = "loop"
    /\ UNCHANGED <<input, optimizer_vars, algorithm, output, history, last_call>>

\* The head of the loop and the optimizer's setup (lines 520-522, 276-296).
LevelStart ==
    /\ pc = "loop"
    /\ iteration_count' = iteration_count + 1
    /\ labels' = [i \in Range0(graph.n_nodes) |-> i]
    /\ out_clusters_weights' = graph.out_probs
    /\ in_clusters_weights' = in_node_probs(graph)
    /\ total_increase' = 0
    /\ pass_increase' = 0
    /\ node' = 0
    /\ pc' = "sweep"
    /\ UNCHANGED <<input, nodes, adjacency, graph, membership, algorithm, output,
                   history, last_call>>

\* One node of a sweep (lines 302-337).
NodeStep ==
    /\ pc = "sweep"
    /\ node < graph.n_nodes
    /\ LET node_cluster == labels[node]
           candidates == unique_clusters(graph, labels, node)
           gain(c) == local_delta(graph, input.resolution, labels,
                                  out_clusters_weights, in_clusters_weights, node, c)
       IN  IF candidates # {}
              /\ move(MaxOf({gain(c) : c \in candidates}))
           THEN \E best_cluster \in candidates :
                   /\ \A c \in candidates : gain(c) <= gain(best_cluster)
                   /\ pass_increase' = pass_increase + gain(best_cluster)
                   /\ out_clusters_weights' =
                         move_weights(out_clusters_weights, graph.out_probs[node],
                                      node_cluster, best_cluster)
                   /\ in_clusters_weights' =
                         move_weights(in_clusters_weights, in_node_probs(graph)[node],
                                      node_cluster, best_cluster)
                   /\ labels' = [labels EXCEPT ![node] = best_cluster]
           ELSE UNCHANGED <<pass_increase, out_clusters_weights, in_clusters_weights,
                            labels>>
    /\ node' = node + 1
    /\ UNCHANGED <<input, pc, driver_vars, graph, total_increase, algorithm, history,
                   last_call>>

\* The end of a sweep (lines 339-346).
SweepEnd ==
    /\ pc = "sweep"
    /\ node = graph.n_nodes
    /\ total_increase' = total_increase + pass_increase
    /\ IF continue_sweeps(pass_increase, input.tol, Scale(graph, input.resolution))
       THEN /\ pass_increase' = 0
            /\ node' = 0
            /\ UNCHANGED <<pc, algorithm>>
       ELSE /\ algorithm' = [score_ |-> total_increase', labels_ |-> unique_inverse(labels)]
            /\ pc' = "fitted"
            /\ UNCHANGED <<pass_increase, node>>
    /\ history' = [history EXCEPT !.sweeps = IF history.sweeps < MaxSweeps
                                              THEN history.sweeps + 1 ELSE MaxSweeps]
    /\ UNCHANGED <<input, driver_vars, graph, labels, out_clusters_weights,
                   in_clusters_weights, last_call>>

\* The rest of the loop body (lines 524-537).
LevelEnd ==
    /\ pc = "fitted"
    /\ IF no_increase(algorithm.score_, input.agg_tol, Scale(graph, input.resolution))
       THEN /\ pc' = "post"
            /\ history' = [history EXCEPT !.exit = "tolerance"]
            /\ UNCHANGED <<membership, graph>>
       ELSE LET agg_membership == membership_matrix(algorithm.labels_)
            IN  /\ membership' = Dot(membership, agg_membership)
                /\ graph' = aggregate(graph, Csr(agg_membership), NoMembership)
                /\ IF graph'.n_nodes = 1
                   THEN /\ pc' = "post"
                        /\ history' = [history EXCEPT
                                          !.aggregations = history.aggregations + 1,
                                          !.exit = "single_node"]
                   ELSE IF cap_reached(iteration_count, input.max_agg_iter)
                   THEN /\ pc' = "post"
                        /\ history' = [history EXCEPT
                                          !.aggregations = history.aggregations + 1,
                                          !.exit = "max_agg_iter"]
                   ELSE /\ pc' = "loop"
                        /\ history' = [history EXCEPT
                                          !.aggregations = history.aggregations + 1]
    /\ UNCHANGED <<input, nodes, adjacency, iteration_count, optimizer_vars, algorithm,
                   output, last_call>>

\* After the loop (lines 539-552).
Finish ==
    /\ pc = "post"
    /\ \E sorted_cluster \in BOOLEAN :
          LET n == NRows(adjacency)
              n1 == NRows(input.adjacency)
              l0 == Indices(membership)
              l1 == IF input.shuffle_nodes THEN Unshuffle(l0, nodes) ELSE l0
              l2 == IF sorted_cluster THEN reindex_clusters(l1) ELSE l1
          IN  output' = [iteration_count_ |-> iteration_count,
                         secondary_labels_ |-> IF n > n1 THEN SliceFrom(l2, n1) ELSE None,
                         labels_ |-> IF n > n1 THEN SliceTo(l2, n1) ELSE l2,
                         aggregate_graph_ |-> graph.norm_adjacency,
                         sorted_cluster |-> sorted_cluster]
    /\ pc' = "done"
    /\ UNCHANGED <<input, nodes, adjacency, graph, membership, iteration_count,
                   optimizer_vars, algorithm, history, last_call>>

Next == FitStart \/ LevelStart \/ NodeStep \/ SweepEnd \/ LevelEnd \/ Finish

Spec == Init /\ [][Next]_vars

\* Runs of an optimizer whose resolution or tol is out of range.
InitInvalid == InitOf(InvalidRuns)

SpecInvalid == InitInvalid /\ [][Next]_vars

\* ------------------------------------- AggregateGraph used on its own
\* The graphs a caller builds: square adjacencies, in-weights given or None.
Graphs ==
    {NewAggregateGraph(A, ow, iw) :
        A \in UNION {Matrices(n, n, MaxAggregatedMass) : n \in 1..MaxAggregated},
        ow \in {Degree}, iw \in {Degree, NoWeights}}

\* Label vectors of any length up to MaxAggregated, the graph's or not.
LabelVectors == UNION {[Range0(m) -> Range0(m)] : m \in 1..MaxAggregated}

\* Those that number their clusters in order of appearance.
InOrder(v) ==
    \A i \in DOMAIN v : v[i] <= Cardinality({v[j] : j \in {k \in DOMAIN v : k < i}})

\* Sparse membership matrices that leave one node without a cluster: the
\* matrix of an in-order label vector with one row emptied.
SparseMemberships ==
    {[i \in DOMAIN v |-> [c \in DOMAIN v |-> IF v[i] = c /\ i # k THEN 1 ELSE 0]] :
        <<v, k>> \in {x \in LabelVectors \X Range0(MaxAggregated) :
                         InOrder(x[1]) /\ x[2] \in DOMAIN x[1]}}

\* The calls: aggregate(labels), aggregate(matrix), aggregate(labels, labels).
Calls ==
    {<<Labels(v), NoMembership>> : v \in LabelVectors}
    \cup {<<Csr(M), NoMembership>> : M \in SparseMemberships}
    \cup {<<Labels(v), Labels(u)>> : v \in {x \in LabelVectors : InOrder(x)},
                                     u \in {x \in LabelVectors : InOrder(x)}}

Unassigned(M) == \E i \in DOMAIN M : \A c \in DOMAIN M[i] : M[i][c] = 0

InitAggregateGraph ==
    /\ graph \in Graphs
    /\ pc = "graph"
    /\ input = NoInput
    /\ nodes = None
    /\ adjacency = None
    /\ membership = None
    /\ iteration_count = 0
    /\ labels = None
    /\ out_clusters_weights = None
    /\ in_clusters_weights = None
    /\ node = 0
    /\ pass_increase = 0
    /\ total_increase = 0
    /\ algorithm = NoAlgorithm
    /\ output = NoOutput
    /\ history = [aggregations |-> 0, sweeps |-> 0, exit |-> "none"]
    /\ last_call = NoCall

\* graph.aggregate(row_membership, col_membership) (lines 93-110).  A column
\* membership is given to graphs that have in-probabilities.
Aggregate ==
    /\ pc = "graph"
    /\ \E call \in Calls :
          LET row == call[1]
              col == call[2]
              raises == AggregateRaises(graph, row, col)
          IN  /\ col.kind # "None" => graph.in_probs # None
              /\ graph' = IF raises THEN graph ELSE aggregate(graph, row, col)
              /\ last_call' =
                    [made |-> TRUE,
                     raised |-> raises,
                     unassigned |-> Unassigned(AsMatrix(row)),
                     mismatch |-> \/ NRows(AsMatrix(row)) # graph.n_nodes
                                  \/ /\ col.kind # "None"
                                     /\ NRows(AsMatrix(col)) # VecLen(graph.in_probs),
                     columns |-> col.kind # "None",
                     unchanged |-> graph' = graph,
                     mass_before |-> [norm_adjacency |-> MatSum(graph.norm_adjacency),
                                      out_probs |-> VecSum(graph.out_probs),
                                      in_probs |-> VecSum(graph.in_probs)]]
    /\ UNCHANGED <<input, pc, driver_vars, optimizer_vars, algorithm, history>>

NextAggregateGraph == Aggregate

SpecAggregateGraph == InitAggregateGraph /\ [][NextAggregateGraph]_vars

\* ============================================================ claims
Running == pc \in {"loop", "sweep", "fitted", "post", "done"}
Bipartite == GraphSize(input.adjacency, input.force_biadjacency) > NRows(input.adjacency)

\* C1: every node of the clustered graph has exactly one cluster in the running
\* membership at every point of the run, and on return labels_ has one label per
\* row node (n1) and, for a bipartite input, secondary_labels_ one per column
\* node (n2).
LabelCoverage ==
    /\ Running =>
          /\ NRows(membership) = GraphSize(input.adjacency, input.force_biadjacency)
          /\ \A i \in DOMAIN membership :
                /\ \A c \in DOMAIN membership[i] : membership[i][c] \in {0, 1}
                /\ VecSum(membership[i]) = 1
    /\ pc = "done" =>
          /\ VecLen(output.labels_) = NRows(input.adjacency)
          /\ Bipartite => VecLen(output.secondary_labels_) = NCols(input.adjacency)
          /\ ~Bipartite => output.secondary_labels_ = None

\* A shuffled bipartite run that aggregated has returned.
LabelCoverageWitness ==
    /\ pc = "done"
    /\ Bipartite
    /\ input.shuffle_nodes
    /\ history.aggregations >= 1

\* C9: at every point of the run the running membership has one column per node
\* of the aggregate graph and no column is empty; on return aggregate_graph_ is
\* k x k, k the number of distinct labels over all the nodes.
OneNodePerCluster ==
    /\ Running =>
          /\ NCols(membership) = graph.n_nodes
          /\ \A c \in Range0(NCols(membership)) :
                \E i \in DOMAIN membership : membership[i][c] # 0
    /\ pc = "done" =>
          LET k == Cardinality({output.labels_[i] : i \in DOMAIN output.labels_}
                      \cup {output.secondary_labels_[i] :
                               i \in DOMAIN output.secondary_labels_})
          IN  /\ NRows(output.aggregate_graph_) = k
              /\ NCols(output.aggregate_graph_) = k

\* A run returns two clusters or more after an aggregation.
OneNodePerClusterWitness ==
    /\ pc = "done"
    /\ history.aggregations >= 1
    /\ NRows(output.aggregate_graph_) >= 2

\* C8: the gain of a sweep is never negative, nor the score of the optimizer.
NonNegativeGain ==
    /\ pass_increase >= 0
    /\ total_increase >= 0
    /\ algorithm # NoAlgorithm => algorithm.score_ >= 0

\* The optimizer returns a positive score at the second level of a run.
NonNegativeGainWitness ==
    /\ pc = "fitted"
    /\ iteration_count >= 2
    /\ algorithm.score_ > 0

\* C4, as claimed: with max_agg_iter = k >= 0 a run makes at most k aggregations.
AtMostMaxAggIterAggregations ==
    (Running /\ input.max_agg_iter >= 0) => history.aggregations <= input.max_agg_iter

\* C5, as claimed: iteration_count_ is the number of aggregations made.
IterationCountIsAggregations ==
    pc = "done" => output.iteration_count_ = history.aggregations

\* The mass a node of the input is meant to have: the weights of fit, in the
\* order of the input.
MeantOutMass(v) ==
    LET P == Preprocess(input) IN check_probs(P.out_weights, P.adjacency).v[v]
MeantInMass(v) ==
    LET P == Preprocess(input) IN check_probs(P.in_weights, Transpose(P.adjacency)).v[v]

\* C6, as claimed: out_probs and in_probs have n_nodes entries, and entry c is
\* the mass of the nodes that row and column c of norm_adjacency stand for (row k
\* of the first graph is the input's node nodes[k]).
MassFollowsOrder ==
    (Running /\ pc # "sweep") =>
        /\ VecLen(graph.out_probs) = graph.n_nodes
        /\ VecLen(graph.in_probs) = graph.n_nodes
        /\ \A c \in Range0(graph.n_nodes) :
              LET members == {k \in DOMAIN membership : membership[k][c] # 0}
                  mass(f) == SumUpTo([k \in DOMAIN membership |->
                                         IF k \in members THEN f[nodes[k]] ELSE 0],
                                     NRows(membership))
              IN  /\ graph.out_probs[c] = mass([v \in DOMAIN nodes |-> MeantOutMass(v)])
                  /\ graph.in_probs[c] = mass([v \in DOMAIN nodes |-> MeantInMass(v)])

\* C3: an aggregate call whose membership gives every node exactly one cluster
\* leaves the sum of out_probs, the sum of in_probs (when there are any) and the
\* total of norm_adjacency as they were before the call: 1 when they were 1.
MassConserved ==
    (last_call.made /\ ~last_call.raised /\ ~last_call.unassigned) =>
        /\ VecSum(graph.out_probs) = last_call.mass_before.out_probs
        /\ graph.in_probs # None => VecSum(graph.in_probs) = last_call.mass_before.in_probs
        /\ MatSum(graph.norm_adjacency) = last_call.mass_before.norm_adjacency

\* A call with a column membership of its own has merged nodes of a graph of
\* mass 1 and left it with more rows than columns.
MassConservedWitness ==
    /\ last_call.made /\ ~last_call.raised /\ ~last_call.unassigned
    /\ last_call.columns
    /\ last_call.mass_before.out_probs = graph.out_den
    /\ last_call.mass_before.norm_adjacency = graph.adj_den
    /\ NRows(graph.norm_adjacency) > NCols(graph.norm_adjacency)

\* C7, as claimed: an aggregate call whose assignment leaves a node without a
\* cluster, or whose size is not the graph's, raises and leaves the graph as it
\* was.
InvalidAssignmentRejected ==
    (last_call.made /\ (last_call.unassigned \/ last_call.mismatch)) =>
        (last_call.raised /\ last_call.unchanged)

\* C2: every run of fit returns, and its loop is left by one of three exits: the
\* score is at most agg_tol, one node is left, or the cap is reached.  Stated
\* with the quantities that bound the run: a sweep that is followed by another
\* one has raised the score, which never exceeds 1 + resolution; a sweep never
\* passes the last node; a level that is followed by another one has left fewer
\* nodes, and at least one; and the loop is left by one of the three exits only.
Terminates ==
    /\ [](/\ Running => total_increase * input.resolution[2]
                            <= Scale(graph, input.resolution)
                                  * (input.resolution[1] + input.resolution[2])
          /\ pc = "sweep" => node <= graph.n_nodes
          /\ pc \in {"post", "done"} =>
                history.exit \in {"tolerance", "single_node", "max_agg_iter"}
          /\ pc \notin {"post", "done"} => history.exit = "none")
    /\ [][/\ (pc = "sweep" /\ node = graph.n_nodes /\ pc' = "sweep") =>
                total_increase' > total_increase
          /\ (pc = "fitted" /\ pc' = "loop") =>
                (graph'.n_nodes < graph.n_nodes /\ graph'.n_nodes >= 1)]_vars

\* A run has returned with one node left after two aggregations, the first of
\* them after more than one sweep.
TerminatesWitness ==
    /\ pc = "done"
    /\ history.exit = "single_node"
    /\ history.aggregations = 2
    /\ history.sweeps >= 3

\* C11, as claimed: an optimizer whose resolution is not positive or whose tol
\* is negative fails before any sweep, so no node of a sweep is ever visited.
InvalidConfigurationRejected ==
    (input.resolution[1] <= 0 \/ input.tol[1] < 0) =>
        /\ history.sweeps = 0
        /\ ~(pc = "sweep" /\ node > 0)

\* The mass of the nodes that carry a label.
ClusterMass(probs, lab, c) ==
    SumUpTo([i \in DOMAIN lab |-> IF lab[i] = c THEN probs[i] ELSE 0], VecLen(lab))

\* C12: at every point of every sweep out_clusters_weights[c] is the sum of
\* out_node_probs over the nodes labelled c and in_clusters_weights[c] the sum of
\* in_node_probs over them, for every cluster c; and a step of a sweep that
\* leaves the labels as they are leaves both accumulators as they are.
ClusterWeightsAreSums ==
    /\ [](pc \in {"sweep", "fitted"} =>
            \A c \in DOMAIN labels :
                /\ out_clusters_weights[c] = ClusterMass(graph.out_probs, labels, c)
                /\ in_clusters_weights[c] = ClusterMass(in_node_probs(graph), labels, c))
    /\ [][(pc = "sweep" /\ labels' = labels) =>
              /\ out_clusters_weights' = out_clusters_weights
              /\ in_clusters_weights' = in_clusters_weights]_vars

\* In a sweep after the first one, a node has left a cluster that keeps other
\* nodes for a cluster that had nodes already.
ClusterWeightsAreSumsWitness ==
    /\ pc = "sweep"
    /\ history.sweeps >= 1
    /\ node >= 1
    /\ \E c \in DOMAIN labels :
          /\ c # node - 1
          /\ labels[node - 1] # c
          /\ Cardinality({i \in DOMAIN labels : labels[i] = c}) >= 2
          /\ out_clusters_weights[c] > 0
    /\ Cardinality({i \in DOMAIN labels : labels[i] = labels[node - 1]}) >= 2

\* The objective of a labelling, as a numerator over Scale: the adjacency mass
\* between nodes of the same cluster, minus resolution times the sum over the
\* clusters of out-mass times in-mass.
Modularity(g, resolution, lab) ==
    LET D == g.out_den * in_node_den(g) * resolution[2]
        inside == SumUpTo([i \in DOMAIN lab |->
                      SumUpTo([j \in DOMAIN lab |->
                                  IF lab[i] = lab[j] THEN g.norm_adjacency[i][j] ELSE 0],
                              VecLen(lab))],
                          VecLen(lab))
        masses == SumUpTo([c \in DOMAIN lab |->
                              ClusterMass(g.out_probs, lab, c)
                              * ClusterMass(in_node_probs(g), lab, c)],
                          VecLen(lab))
    IN  D * inside - resolution[1] * g.adj_den * masses

\* C13: the gain booked so far in a call of the optimizer is the exact change of
\* the objective from the identity labelling to the current one, after every
\* move; so the score returned is Q(final labels) - Q(identity labels).
BookedGainIsExact ==
    /\ pc = "sweep" =>
          total_increase + pass_increase
             = Modularity(graph, input.resolution, labels)
               - Modularity(graph, input.resolution, [i \in DOMAIN labels |-> i])
    /\ pc = "fitted" =>
          algorithm.score_
             = Modularity(graph, input.resolution, labels)
               - Modularity(graph, input.resolution, [i \in DOMAIN labels |-> i])

\* The optimizer returns a positive score for an aggregated graph that is
\* directed and has self-loops.
BookedGainIsExactWitness ==
    /\ pc = "fitted"
    /\ iteration_count >= 2
    /\ algorithm.score_ > 0
    /\ \E i \in Range0(graph.n_nodes) : graph.norm_adjacency[i][i] > 0
    /\ \E i, j \in Range0(graph.n_nodes) :
          graph.norm_adjacency[i][j] # graph.norm_adjacency[j][i]

\* ------------------------------------------------- the two triangles
\* Two disjoint triangles of unit weights: nodes 0, 1, 2 and nodes 3, 4, 5.
TwoTriangles ==
    [i \in Range0(6) |-> [j \in Range0(6) |->
        IF i # j /\ (i < 3 <=> j < 3) THEN 1 ELSE 0]]

TriangleRuns ==
    [adjacency : {TwoTriangles},
     weights : {Degree},
     secondary_weights : {NoWeights},
     force_undirected : {FALSE},
     force_biadjacency : {FALSE},
     resolution : {DefaultResolution},
     tol : {DefaultTol},
     agg_tol : {DefaultAggTol},
     max_agg_iter : MaxAggIters,
     shuffle_nodes : BOOLEAN]

InitTriangles == InitOf(TriangleRuns)

SpecTriangles == InitTriangles /\ [][Next]_vars

\* C10: for the two triangles and resolution 1, fit returns two clusters, one
\* per triangle, in the order of the input, whatever the shuffle and the ties.
TrianglesSeparated ==
    pc = "done" =>
        LET l == output.labels_
        IN  /\ VecLen(l) = 6
            /\ l[0] = l[1] /\ l[1] = l[2]
            /\ l[3] = l[4] /\ l[4] = l[5]
            /\ l[0] # l[3]

\* A run whose shuffle interleaved the triangles has returned.
TrianglesSeparatedWitness ==
    /\ pc = "done"
    /\ input.shuffle_nodes
    /\ nodes[0] >= 3 /\ nodes[1] < 3 /\ nodes[2] >= 3

====
